---- MODULE Spec2Model ----
(***************************************************************************)
(* Quiz application (src/app.py): one browser talking to the Flask app.    *)
(* State: the Flask session of the browser, its flask-login remember       *)
(* cookie, the question file on disk, the clock, the deployment mode and   *)
(* a record of the last request with the response it received.             *)
(***************************************************************************)
EXTENDS Integers, Sequences, FiniteSets, TLC

\* ------------------------------------------------------------------ bounds
MaxQ == 3         \* number of questions of the largest category of the file
MaxNow == 1       \* time.time() reads a whole second in 0..MaxNow
MaxUsers == 2     \* rows the user table may hold
MaxElapsed == 130 \* longest quiz that is timed, in seconds

\* ------------------------------------------------------- Python sentinels
None == "None"            \* Python None (a form field that is missing)
NoUser == 0               \* no '_user_id' / no remember cookie
TheUser == 1              \* id of the one registered user

\* --------------------------------------------------------- question files
\* A question of questions.json: {question, options, answer}.
Question(cat, i) ==
    [question |-> <<cat, i>>, options |-> <<cat, i, "opts">>,
     answer |-> IF i % 2 = 1 THEN "A" ELSE "B"]

\* A question of the edited file.
QuestionEdited(cat, i) ==
    [question |-> <<cat, i, "v2">>, options |-> <<cat, i, "opts2">>,
     answer |-> IF i % 2 = 1 THEN "B" ELSE "A"]

FileA ==
    [ok |-> TRUE,
     categories |-> [math |-> [i \in 1..MaxQ |-> Question("math", i)],
                     empty |-> <<>>]]

\* The file after an edit: one category, one question, another answer key.
FileB ==
    [ok |-> TRUE,
     categories |-> [math |-> <<QuestionEdited("math", 1)>>]]

\* questions.json missing or not valid JSON
FileBroken == [ok |-> FALSE, categories |-> [empty |-> <<>>]]

Files == {FileA, FileB, FileBroken}

\* ------------------------------------------------------------ input sets
CategoryArgs == {"math", "empty", "history", "", None}
\* the total_questions form field: an integer, or not an integer at all
CountArgs == {[int |-> TRUE, value |-> v] : v \in -1 .. (MaxQ + 1)}
             \cup {[int |-> FALSE, value |-> 0]}
AnswerArgs == {"A", "E", None}
\* what time.time() may return, in whole seconds
Times == 0 .. MaxNow
\* Text fields are sequences of characters.
EmailArgs == {<<"a">>, <<" ", "a">>, <<"b">>}
PasswordArgs == {<<"p">>, <<"q">>}
\* what the login form carries; valid is the verdict of validate_on_submit
Credentials ==
    {[valid |-> TRUE, email |-> e, password |-> p] :
        e \in EmailArgs, p \in PasswordArgs}
    \cup {[valid |-> FALSE, email |-> <<>>, password |-> <<>>]}
\* what the registration form carries
Registrations ==
    {[valid |-> TRUE, email |-> e, username |-> <<"u">>, password |-> p] :
        e \in EmailArgs, p \in PasswordArgs}
    \cup {[valid |-> FALSE, email |-> <<>>, username |-> <<>>,
           password |-> <<>>]}

\* ---------------------------------------------------------------- helpers
Min(a, b) == IF a <= b THEN a ELSE b

Take(s, n) == [i \in 1..n |-> s[i]]

RECURSIVE SumCorrect(_)
\* sum(1 for answer in session['answers'] if answer['is_correct'])
SumCorrect(as) ==
    IF as = <<>> THEN 0
    ELSE (IF Head(as).is_correct THEN 1 ELSE 0) + SumCorrect(Tail(as))

\* RoundScore truncating after the second decimal instead of rounding
RoundScoreTruncated(num, den) == (10000 * num) \div den

\* round(x, 2) of x = num/den * 100, as an integer number of hundredths:
\* the nearest integer to 10000*num/den, ties to even as Python rounds.
RoundScore(num, den) ==
    LET q == (10000 * num) \div den
        r == (10000 * num) % den
    IN  IF 2 * r < den THEN q
        ELSE IF 2 * r > den THEN q + 1
        ELSE IF q % 2 = 0 THEN q ELSE q + 1

\* the decimal digit d as a character
DigitChar(d) == <<"0", "1", "2", "3", "4", "5", "6", "7", "8", "9">>[d + 1]

RECURSIVE Digits(_)
\* str(n) of an integer n >= 0, as f"{n}" prints it
Digits(n) ==
    IF n < 10 THEN <<DigitChar(n)>>
    ELSE Digits(n \div 10) \o <<DigitChar(n % 10)>>

\* time_taken_formatted that prints all the seconds after the minutes
time_taken_unreduced(time_taken_seconds) ==
    Digits(time_taken_seconds \div 60) \o <<"m", " ">>
        \o Digits(time_taken_seconds) \o <<"s">>

\* show_results, lines 220-222: f"{minutes}m {seconds}s"
time_taken_formatted(time_taken_seconds) ==
    LET minutes == time_taken_seconds \div 60
        seconds == time_taken_seconds % 60
    IN  Digits(minutes) \o <<"m", " ">> \o Digits(seconds) \o <<"s">>

\* str.capitalize() on the category names in use
Capitalize(c) ==
    CASE c = "math" -> "Math"
      [] c = "empty" -> "Empty"
      [] c = "history" -> "History"
      [] OTHER -> c

\* ---------------------------------------------------------------- accounts
RECURSIVE LStrip(_)
\* the text without its leading blanks
LStrip(t) == IF t # <<>> /\ Head(t) = " " THEN LStrip(Tail(t)) ELSE t

RECURSIVE RStrip(_)
\* the text without its trailing blanks
RStrip(t) ==
    IF t # <<>> /\ t[Len(t)] = " " THEN RStrip(SubSeq(t, 1, Len(t) - 1)) ELSE t

\* Strip that forgets to strip
StripNothing(t) == t

\* str.strip()
Strip(t) == RStrip(LStrip(t))

\* werkzeug generate_password_hash: a one-way image of the password
generate_password_hash(password) == <<"scrypt", password>>

\* check_password_hash that accepts every password
check_password_hash_any(hash, password) == TRUE

\* werkzeug check_password_hash
check_password_hash(hash, password) == hash = <<"scrypt", password>>

\* FindUser that finds nobody
FindNobody(table, email) == NoUser

\* User.query.filter_by(email=email).first(): the id of the first row with
\* this email, NoUser when there is none
FindUser(table, email) ==
    IF \E i \in 1..Len(table) : table[i].email = email
    THEN CHOOSE i \in 1..Len(table) :
            /\ table[i].email = email
            /\ \A j \in 1..(i - 1) : table[j].email # email
    ELSE NoUser

\* the unique constraint of the email column refuses the row
UniqueViolation(table, email) ==
    \E i \in 1..Len(table) : table[i].email = email

\* quiz.db with one registered user
InitialUsers ==
    <<[id |-> TheUser, email |-> <<"a">>, username |-> <<"u">>,
       password |-> generate_password_hash(<<"p">>)]>>

\* ------------------------------------------------------------------ state
VARIABLES
    session,     \* the Flask session of the browser
    remember,    \* the flask-login remember_token cookie of the browser
    file,        \* questions.json as it is on disk
    debug,       \* TRUE: run by app.run(debug=True); FALSE: run by a WSGI server
    users,       \* the rows of the user table of quiz.db, in insertion order
    started,     \* history: a start succeeded since the session was last cleared
    revoked,     \* history: a logout was served and no login succeeded since
    run,         \* history: the count of the last successful start and the
                 \* submits served since
    last         \* the last request and its response

vars == <<session, remember, file, debug, users, started, revoked, run, last>>

QuizKeys == {"category", "total_questions", "questions", "current_index",
             "answers", "start_time"}

EmptySession ==
    [user_id |-> NoUser, keys |-> {}, category |-> "", total_questions |-> 0,
     questions |-> <<>>, current_index |-> 0, answers |-> <<>>,
     start_time |-> 0]

\* The quiz fields of a session, without the login key.
QuizState(s) == [s EXCEPT !.user_id = NoUser]

NoBody ==
    [question |-> <<>>, question_number |-> 0, total_questions |-> 0,
     correct |-> 0, score |-> 0, time_taken |-> <<>>, answers |-> <<>>,
     category |-> "", questions_count |-> 0, max_questions |-> 0]

NoRequest ==
    [ep |-> "none", category |-> "", n |-> 0, nIsInt |-> TRUE, answer |-> "", cred |-> "",
     resp |-> "none", exc |-> "", flash |-> "", msg |-> "", body |-> NoBody,
     pre |-> EmptySession, preRemember |-> NoUser,
     preStarted |-> FALSE, preRevoked |-> FALSE, preFile |-> FileA,
     email |-> <<>>, password |-> <<>>, preUsers |-> <<>>, now |-> 0]

\* no successful start yet
NoRun == [N |-> 0, submits |-> 0]

Init ==
    /\ session = EmptySession
    /\ remember = NoUser
    /\ file \in Files
    /\ debug \in BOOLEAN
    /\ users = InitialUsers
    /\ started = FALSE
    /\ revoked = FALSE
    /\ run = NoRun
    /\ last = NoRequest

\* No request is being served and no response is on its way.
Idle == last = NoRequest

\* The request record at the start of a handler.
Request(ep) ==
    [NoRequest EXCEPT !.ep = ep, !.pre = session, !.preRemember = remember,
                      !.preStarted = started, !.preRevoked = revoked,
                      !.preFile = file, !.preUsers = users]

\* --------------------------------------------------------- question store
\* load_questions: None on a load failure, the whole mapping when the
\* category is falsy, else the category's list ([] when unknown).
load_questions(f, category) ==
    IF ~f.ok THEN [kind |-> "none", list |-> <<>>, size |-> 0]
    ELSE IF category \in {None, ""}
         THEN [kind |-> "dict", list |-> <<>>,
               size |-> Cardinality(DOMAIN f.categories)]
    ELSE IF category \in DOMAIN f.categories
         THEN [kind |-> "list", list |-> f.categories[category],
               size |-> Len(f.categories[category])]
    ELSE [kind |-> "list", list |-> <<>>, size |-> 0]

\* Python truthiness of what load_questions returned
Falsy(loaded) == loaded.kind = "none" \/ loaded.size = 0

\* get_questions taking the questions from the end of the list
get_questions_last(questions, num_questions) ==
    LET n == IF num_questions > Len(questions)
             THEN Len(questions) ELSE num_questions
    IN  SubSeq(questions, Len(questions) - n + 1, Len(questions))

\* get_questions on a list: the first min(num_questions, len) questions
get_questions(questions, num_questions) ==
    Take(questions, IF num_questions > Len(questions)
                    THEN Len(questions) ELSE num_questions)

\* InvalidParams with the count test off by one (< for <=)
InvalidParamsStrict(questions, total_questions) ==
    Falsy(questions) \/ total_questions < 0

\* start_quiz, line 143: the parameters that are refused
InvalidParams(questions, total_questions) ==
    Falsy(questions) \/ total_questions <= 0

\* ClampedTotal without the clamp
ClampedTotalRequested(total_questions, questions) == total_questions

\* start_quiz, line 149: min(total_questions, len(questions))
ClampedTotal(total_questions, questions) ==
    Min(total_questions, questions.size)

\* show_question, line 161: 'current_index' not in session
QuizNotStarted(s) == "current_index" \notin s.keys

\* QuizCompleted off by one (> for >=)
QuizCompletedStrict(current_index, total_questions) ==
    current_index > total_questions

\* show_question, line 168: current_index >= total_questions
QuizCompleted(current_index, total_questions) ==
    current_index >= total_questions

\* CurrentQuestion read again from questions.json when it is there
CurrentQuestionReloaded(s) ==
    IF /\ file.ok
       /\ s.category \in DOMAIN file.categories
       /\ s.current_index + 1 <= Len(file.categories[s.category])
    THEN file.categories[s.category][s.current_index + 1]
    ELSE s.questions[s.current_index + 1]

\* submit_answer, line 184: session['questions'][current_index]
CurrentQuestion(s) == s.questions[s.current_index + 1]

\* IsCorrect that only tests the label
IsCorrectAnyLabel(user_answer, question) ==
    user_answer \in {"A", "B", "C", "D"}

\* submit_answer, lines 190-193
IsCorrect(user_answer, question) ==
    IF user_answer \notin {"A", "B", "C", "D"}
    THEN FALSE
    ELSE user_answer = question.answer

\* NoAnswers testing a key that a failed start also writes
NoAnswersByCategory(s) == "category" \notin s.keys

\* show_results, line 213: 'answers' not in session
NoAnswers(s) == "answers" \notin s.keys

\* ------------------------------------------------------------ flask-login
\* LoginManager._load_user: the user of the session, else the user of the
\* remember cookie, which is then written back into the session.
LoadUser(s) ==
    IF s.user_id # NoUser THEN s
    ELSE IF remember # NoUser THEN [s EXCEPT !.user_id = remember]
    ELSE s

Authenticated(s) == LoadUser(s).user_id # NoUser

\* A handler that raised: under the debugger the exception propagates and
\* the session cookie is not rewritten; otherwise Flask answers 500 and
\* saves the session as the handler left it.
AfterRaise(partial) == IF debug THEN session ELSE partial

\* @login_required without a user: LoginManager.unauthorized()
Unauthorized(ep) ==
    /\ session' = session
    /\ last' = [Request(ep) EXCEPT !.resp = "redirect_login",
                                   !.flash = "Please log in to access this page."]
    /\ UNCHANGED <<remember, file, debug, users, started, run, revoked>>

\* A response that raised exc after leaving the session as partial.
Raised(req, exc) == [req EXCEPT !.resp = "error500", !.exc = exc]

\* ------------------------------------------------------------------ GET /
home ==
    /\ Idle
    /\ last' = [Request("home") EXCEPT !.resp = "render_home"]
    /\ UNCHANGED <<session, remember, file, debug, users, started, run, revoked>>

\* ------------------------------------------------------------ POST /login
login(form) ==
    /\ Idle
    /\ LET req == [Request("login") EXCEPT !.email = form.email,
                                           !.password = form.password,
                                           !.cred = IF form.valid THEN "form"
                                                    ELSE "invalid_form"]
           email == Strip(form.email)
           password == Strip(form.password)
           user == FindUser(users, email)
       IN  IF ~form.valid
           THEN /\ last' = [req EXCEPT !.resp = "render_home"]
                /\ UNCHANGED <<session, remember, file, debug, users, started,
                               run, revoked>>
           ELSE IF /\ user # NoUser
                   /\ check_password_hash(users[user].password, password)
           THEN /\ session' = [session EXCEPT !.user_id = user]
                /\ remember' = user
                /\ revoked' = FALSE
                /\ last' = [req EXCEPT !.resp = "redirect_index",
                                       !.flash = "Login successful!"]
                /\ UNCHANGED <<file, debug, users, started, run>>
           ELSE /\ last' = [req EXCEPT !.resp = "render_home",
                                       !.msg = "Invalid email or password"]
                /\ UNCHANGED <<session, remember, file, debug, users, started,
                               run, revoked>>

\* --------------------------------------------------------- POST /register
register(form) ==
    /\ Idle
    /\ LET req == [Request("register") EXCEPT !.email = form.email,
                                              !.password = form.password,
                                              !.cred = IF form.valid THEN "form"
                                                       ELSE "invalid_form"]
           existing_user == FindUser(users, form.email)
           new_user == [id |-> Len(users) + 1,
                        email |-> Strip(form.email),
                        username |-> Strip(form.username),
                        password |->
                            generate_password_hash(Strip(form.password))]
       IN  IF ~form.valid
           THEN /\ last' = [req EXCEPT !.resp = "render_register"]
                /\ users' = users
           ELSE IF existing_user # NoUser
           THEN /\ last' = [req EXCEPT
                       !.resp = "render_register",
                       !.msg = "Email already exists. Please use a different email."]
                /\ users' = users
           ELSE IF UniqueViolation(users, new_user.email)
           THEN \* db.session.commit(): IntegrityError
                /\ last' = Raised(req, "IntegrityError")
                /\ users' = users
           ELSE /\ Len(users) < MaxUsers
                /\ users' = Append(users, new_user)
                /\ last' = [req EXCEPT !.resp = "redirect_login"]
    /\ UNCHANGED <<session, remember, file, debug, started, run, revoked>>

\* ------------------------------------------------------------ GET /logout
logout ==
    /\ Idle
    /\ \/ /\ ~Authenticated(session)
          /\ Unauthorized("logout")
       \/ /\ Authenticated(session)
          /\ session' = EmptySession
          /\ started' = FALSE
          /\ run' = NoRun
          /\ revoked' = TRUE
          /\ last' = [Request("logout") EXCEPT !.resp = "redirect_home"]
          /\ UNCHANGED <<remember, file, debug, users>>

\* -------------------------------------------------------------- GET /home
index ==
    /\ Idle
    /\ \/ /\ ~Authenticated(session)
          /\ Unauthorized("index")
       \/ /\ Authenticated(session)
          /\ LET categories == load_questions(file, None)
                 counts == {Len(file.categories[c]) : c \in DOMAIN file.categories}
                 req == Request("index")
             IN  IF Falsy(categories)
                 THEN last' = [req EXCEPT
                        !.resp = "render_index",
                        !.msg = "Failed to load questions. Please check the questions file."]
                 ELSE last' = [req EXCEPT
                        !.resp = "render_index",
                        !.body.max_questions =
                            CHOOSE m \in counts : \A k \in counts : k <= m]
          /\ session' = LoadUser(session)
          /\ UNCHANGED <<remember, file, debug, users, started, run, revoked>>

\* -------------------------------------------------- GET /category/<name>
category_questions(category) ==
    /\ Idle
    /\ \/ /\ ~Authenticated(session)
          /\ Unauthorized("category_questions")
       \/ /\ Authenticated(session)
          /\ LET questions == load_questions(file, category)
                 req == [Request("category_questions") EXCEPT !.category = category]
             IN  IF Falsy(questions)
                 THEN last' = [req EXCEPT !.resp = "redirect_index",
                                          !.flash = "No questions found"]
                 ELSE last' = [req EXCEPT
                        !.resp = "render_category",
                        !.body.category = Capitalize(category),
                        !.body.questions_count = questions.size]
          /\ session' = LoadUser(session)
          /\ UNCHANGED <<remember, file, debug, users, started, run, revoked>>

\* ------------------------------------------------------------ POST /start
start_quiz(category, field, now) ==
    /\ Idle
    /\ \/ /\ ~Authenticated(session)
          /\ Unauthorized("start_quiz")
       \/ /\ Authenticated(session)
          /\ LET req == [Request("start_quiz") EXCEPT !.category = category,
                                                       !.n = field.value,
                                                       !.nIsInt = field.int]
                 n == field.value
                 s0 == LoadUser(session)
                 questions == load_questions(file, category)
                 s1 == [s0 EXCEPT
                          !.keys = @ \cup {"category", "total_questions"},
                          !.category = category,
                          !.total_questions = ClampedTotal(n, questions)]
                 s2 == [s1 EXCEPT
                          !.keys = QuizKeys,
                          !.questions = get_questions(questions.list,
                                                      s1.total_questions),
                          !.current_index = 0,
                          !.answers = <<>>,
                          !.start_time = now]
             IN  IF ~field.int
                 THEN \* int() of a missing or non-numeric field
                      /\ session' = AfterRaise(s0)
                      /\ last' = Raised(req, "ValueError")
                      /\ UNCHANGED <<started, run>>
                 ELSE IF InvalidParams(questions, n)
                 THEN /\ UNCHANGED <<started, run>>
                      /\ IF category = None
                         THEN \* url_for(..., category=None): BuildError
                              /\ session' = AfterRaise(s0)
                              /\ last' = [Raised(req, "BuildError") EXCEPT
                                            !.flash = "Invalid quiz parameters!"]
                         ELSE /\ session' = s0
                              /\ last' = [req EXCEPT
                                            !.resp = "redirect_category",
                                            !.flash = "Invalid quiz parameters!"]
                 ELSE IF questions.kind = "dict"
                 THEN \* get_questions slices the mapping: TypeError
                      /\ session' = AfterRaise(s1)
                      /\ last' = Raised(req, "TypeError")
                      /\ UNCHANGED <<started, run>>
                 ELSE /\ session' = s2
                      /\ started' = TRUE
                      /\ run' = [N |-> s2.total_questions, submits |-> 0]
                      /\ last' = [req EXCEPT !.resp = "redirect_show_question"]
          /\ UNCHANGED <<remember, file, debug, users, revoked>>

\* -------------------------------------------------------------- GET /quiz
show_question ==
    /\ Idle
    /\ LET req == Request("show_question")
           current_index == session.current_index
           total_questions == session.total_questions
       IN  /\ IF QuizNotStarted(session)
              THEN last' = [req EXCEPT !.resp = "redirect_index"]
              ELSE IF "total_questions" \notin session.keys
              THEN last' = Raised(req, "KeyError")
              ELSE IF QuizCompleted(current_index, total_questions)
              THEN last' = [req EXCEPT !.resp = "redirect_show_results"]
              ELSE IF "questions" \notin session.keys
              THEN last' = Raised(req, "KeyError")
              ELSE IF current_index + 1 > Len(session.questions)
              THEN last' = Raised(req, "IndexError")
              ELSE last' = [req EXCEPT
                     !.resp = "render_quiz",
                     !.body.question = session.questions[current_index + 1],
                     !.body.question_number = current_index + 1,
                     !.body.total_questions = total_questions]
           /\ UNCHANGED <<session, remember, file, debug, users, started, run, revoked>>

\* ----------------------------------------------------------- POST /submit
submit_answer(user_answer) ==
    /\ Idle
    /\ LET req == [Request("submit_answer") EXCEPT !.answer = user_answer]
           current_index == session.current_index
           question == CurrentQuestion(session)
           is_correct == IsCorrect(user_answer, question)
           record == [question |-> question.question,
                      user_answer |-> user_answer,
                      correct_answer |-> question.answer,
                      is_correct |-> is_correct,
                      options |-> question.options]
       IN  /\ IF \/ "current_index" \notin session.keys
                 \/ "questions" \notin session.keys
              THEN /\ last' = Raised(req, "KeyError")
                   /\ UNCHANGED <<session, run>>
              ELSE IF current_index + 1 > Len(session.questions)
              THEN /\ last' = Raised(req, "IndexError")
                   /\ UNCHANGED <<session, run>>
              ELSE IF "answers" \notin session.keys
              THEN /\ last' = Raised(req, "KeyError")
                   /\ UNCHANGED <<session, run>>
              ELSE /\ session' = [session EXCEPT
                                    !.answers = Append(@, record),
                                    !.current_index = current_index + 1]
                   /\ run' = [run EXCEPT !.submits = @ + 1]
                   /\ last' = [req EXCEPT !.resp = "redirect_show_question"]
           /\ UNCHANGED <<remember, file, debug, users, started, revoked>>

\* ----------------------------------------------------------- GET /results
\* now is what time.time() returns: never before a start_time it gave.
show_results(now) ==
    /\ Idle
    /\ \/ /\ ~Authenticated(session)
          /\ Unauthorized("show_results")
       \/ /\ Authenticated(session)
          /\ "start_time" \in session.keys => now >= session.start_time
          /\ LET req == Request("show_results")
                 s0 == LoadUser(session)
                 total_questions == session.total_questions
                 correct == SumCorrect(session.answers)
                 time_taken_seconds == now - session.start_time
             IN  IF NoAnswers(session)
                 THEN /\ session' = s0
                      /\ last' = [req EXCEPT !.resp = "redirect_index"]
                 ELSE IF \/ "total_questions" \notin session.keys
                         \/ "start_time" \notin session.keys
                         \/ "category" \notin session.keys
                 THEN /\ session' = AfterRaise(s0)
                      /\ last' = Raised(req, "KeyError")
                 ELSE IF total_questions = 0
                 THEN /\ session' = AfterRaise(s0)
                      /\ last' = Raised(req, "ZeroDivisionError")
                 ELSE IF session.category = None
                 THEN \* None.capitalize(): AttributeError
                      /\ session' = AfterRaise(s0)
                      /\ last' = Raised(req, "AttributeError")
                 ELSE /\ session' = s0
                      /\ last' = [req EXCEPT
                           !.resp = "render_results",
                           !.body.category = Capitalize(session.category),
                           !.body.total_questions = total_questions,
                           !.body.correct = correct,
                           !.body.score = RoundScore(correct, total_questions),
                           !.body.time_taken =
                               time_taken_formatted(time_taken_seconds),
                           !.now = now,
                           !.body.answers = session.answers]
          /\ UNCHANGED <<remember, file, debug, users, started, run, revoked>>

\* ------------------------------------------------------------ environment
\* questions.json is edited, removed or restored on disk, between requests.
FileChange ==
    /\ Idle
    /\ file' \in Files \ {file}
    /\ UNCHANGED <<session, remember, debug, users, started, run, revoked, last>>

\* The browser receives the response and stores the cookies; it sends its
\* next request only then (one request per interaction).
Deliver ==
    /\ ~Idle
    /\ last' = NoRequest
    /\ UNCHANGED <<session, remember, file, debug, users, started, run, revoked>>

Next ==
    \/ home
    \/ \E cred \in Credentials : login(cred)
    \/ logout
    \/ index
    \/ \E c \in CategoryArgs \ {"", None} : category_questions(c)
    \/ \E c \in CategoryArgs, n \in CountArgs, t \in Times :
           start_quiz(c, n, t)
    \/ show_question
    \/ \E a \in AnswerArgs : submit_answer(a)
    \/ \E t \in Times : show_results(t)
    \/ FileChange
    \/ Deliver

Spec == Init /\ [][Next]_vars

\* ------------------------------------------------- one quiz, and its time
\* A logged-in browser right after POST /start category=math
\* total_questions=1 at second 0.
InitTimed ==
    /\ session = [user_id |-> TheUser, keys |-> QuizKeys, category |-> "math",
                  total_questions |-> 1,
                  questions |-> <<Question("math", 1)>>,
                  current_index |-> 0, answers |-> <<>>, start_time |-> 0]
    /\ remember = TheUser
    /\ file = FileA
    /\ debug \in BOOLEAN
    /\ users = InitialUsers
    /\ started = TRUE
    /\ revoked = FALSE
    /\ run = [N |-> 1, submits |-> 0]
    /\ last = NoRequest

NextTimed ==
    \/ \E a \in AnswerArgs : submit_answer(a)
    \/ \E t \in 0..MaxElapsed : show_results(t)
    \/ Deliver

SpecTimed == InitTimed /\ [][NextTimed]_vars

\* ------------------------------------------------ the accounts on their own
\* A new quiz.db, as db.create_all() leaves it.
InitAcct ==
    /\ session = EmptySession
    /\ remember = NoUser
    /\ file = FileA
    /\ debug \in BOOLEAN
    /\ users = <<>>
    /\ started = FALSE
    /\ revoked = FALSE
    /\ run = NoRun
    /\ last = NoRequest

NextAcct ==
    \/ home
    \/ \E f \in Registrations : register(f)
    \/ \E f \in Credentials : login(f)
    \/ logout
    \/ index
    \/ Deliver

SpecAcct == InitAcct /\ [][NextAcct]_vars

TypeOK ==
    /\ session.keys \subseteq QuizKeys
    /\ session.user_id \in 0..Len(users)
    /\ remember \in 0..Len(users)
    /\ Len(users) <= MaxUsers
    /\ file \in Files
    /\ session.start_time \in 0..MaxNow

\* ================================================================ claims
\* Names used by the claims.
LoginRequired == {"logout", "index", "category_questions", "start_quiz",
                  "show_results"}
Protected == LoginRequired \cup {"show_question", "submit_answer"}
Redirects == {"redirect_login", "redirect_index", "redirect_home",
              "redirect_category", "redirect_show_question",
              "redirect_show_results"}

\* The browser of the last request carried a login (session or cookie).
PreAuth == last.pre.user_id # NoUser \/ last.preRemember # NoUser

\* The quiz states of section 4.3, read from the session fields.
HoldsQuiz(s) == "current_index" \in s.keys
InProgress(s) == HoldsQuiz(s) /\ s.current_index < s.total_questions
Completed(s) == HoldsQuiz(s) /\ s.current_index = s.total_questions

\* the categories of file f that have no question for a start
NoQuestionsFor(f, c) ==
    \/ ~f.ok
    \/ /\ c \notin {"", None}
       /\ \/ c \notin DOMAIN f.categories
          \/ f.categories[c] = <<>>

\* C1: a session that holds quiz state has 0 <= current_index <=
\* total_questions and len(answers) == current_index.
C1_IndexInvariant ==
    HoldsQuiz(session) =>
        /\ 0 <= session.current_index
        /\ session.current_index <= session.total_questions
        /\ Len(session.answers) = session.current_index

\* C2: a /submit in InProgress with an answer outside {A,B,C,D} is not an
\* error, appends a record with is_correct false and advances
\* current_index by exactly one.
C2_InvalidAnswerScoredWrong ==
    ( /\ last.ep = "submit_answer"
      /\ InProgress(last.pre)
      /\ last.answer \notin {"A", "B", "C", "D"} )
    => /\ last.resp = "redirect_show_question"
       /\ session.current_index = last.pre.current_index + 1
       /\ Len(session.answers) = Len(last.pre.answers) + 1
       /\ session.answers[Len(session.answers)].is_correct = FALSE

\* C3: a successful start(C, n) on a category of k questions stores
\* total_questions = min(n, k) (so k when n > k) and exactly that many
\* questions, and answers with the redirect to the quiz.
C3_StartClamps ==
    ( /\ last.ep = "start_quiz"
      /\ last.resp = "redirect_show_question" )
    => LET k == Len(last.preFile.categories[last.category])
       IN  /\ k >= 1
           /\ last.n > k => session.total_questions = k
           /\ last.n <= k => session.total_questions = last.n
           /\ Len(session.questions) = session.total_questions
           /\ last.exc = ""
           /\ last.flash = ""

C3_Witness ==
    /\ last.ep = "start_quiz"
    /\ last.resp = "redirect_show_question"
    /\ last.n > Len(last.preFile.categories[last.category])
    /\ session.total_questions = MaxQ

C5_ScoreFormula ==
    ( /\ last.ep = "show_results"
      /\ last.resp = "render_results" )
    => LET t == last.pre.total_questions
           c == Cardinality({i \in 1..Len(last.pre.answers) :
                               last.pre.answers[i].is_correct})
           d == last.body.score * t - 10000 * c
       IN  /\ last.body.correct = c
           /\ t >= 1
           /\ 2 * d <= t
           /\ -2 * d <= t
           /\ (c = 3 /\ t = 4) => last.body.score = 7500
           /\ (c = 2 /\ t = 3) => last.body.score = 6667

C5_Witness ==
    /\ last.ep = "show_results"
    /\ last.resp = "render_results"
    /\ last.body.correct = 2
    /\ last.pre.total_questions = 3
    /\ last.body.score = 6667

\* C6: every protected endpoint asked without a login answers with the
\* redirect to login and leaves the session as it was.
C6_ProtectedNeedLogin ==
    ( /\ last.ep \in Protected
      /\ ~PreAuth )
    => /\ last.resp = "redirect_login"
       /\ session = last.pre

\* C7: after a logout and until the next successful login, every request
\* to a login-required endpoint is redirected to login.
C7_LogoutRevokes ==
    ( /\ last.ep \in LoginRequired
      /\ last.preRevoked )
    => last.resp = "redirect_login"

\* C8: a /submit out of sequence (no start yet, or quiz Completed) is
\* answered with a redirect, never with an unhandled error, and leaves the
\* session as it was.
C8_SubmitOutOfSequence ==
    ( /\ last.ep = "submit_answer"
      /\ ~last.preStarted \/ Completed(last.pre) )
    => /\ last.resp \in Redirects
       /\ session = last.pre

\* C9 as stated: /quiz or /results in a session without a started quiz
\* redirects to the home view, never raises and leaves the session as it was.
C9_NoQuizRedirectsHome ==
    ( /\ last.ep \in {"show_question", "show_results"}
      /\ ~last.preStarted )
    => /\ last.resp = "redirect_index"
       /\ QuizState(session) = QuizState(last.pre)

\* C9 amended: /quiz from any browser, and /results from a browser that
\* carries a login, in a session without a started quiz redirect to the
\* home view, never raise and leave the quiz fields as they were; /results
\* without a login redirects to login.
C9_NoQuizRedirectsHomeOrLogin ==
    ( /\ last.ep \in {"show_question", "show_results"}
      /\ ~last.preStarted )
    => /\ last.resp = IF last.ep = "show_results" /\ ~PreAuth
                      THEN "redirect_login" ELSE "redirect_index"
       /\ QuizState(session) = QuizState(last.pre)

C9_Witness ==
    /\ last.ep = "show_results"
    /\ ~last.preStarted
    /\ PreAuth
    /\ last.pre.keys # {}
    /\ last.resp = "redirect_index"

\* C10: /results while the quiz is InProgress is out of sequence: it is
\* redirected, no summary is rendered.
C10_ResultsOnlyWhenCompleted ==
    ( /\ last.ep = "show_results"
      /\ InProgress(last.pre) )
    => /\ last.resp \in Redirects
       /\ last.resp # "render_results"

\* ------------------------------------------------------- account claims
Blanks(n) == [i \in 1..n |-> " "]

\* text is core with blanks before and after it, and core has none at its ends
Padded(core, text) ==
    /\ core = <<>> \/ (core[1] # " " /\ core[Len(core)] # " ")
    /\ \E a \in 0..Len(text), b \in 0..Len(text) :
          text = Blanks(a) \o core \o Blanks(b)

\* C11: a /register whose email is the email of a stored user is answered
\* with the existing-email message and leaves the user table as it was.
C11_DuplicateEmailRejected ==
    ( /\ last.ep = "register"
      /\ last.cred = "form"
      /\ \E i \in 1..Len(last.preUsers) : last.preUsers[i].email = last.email )
    => /\ last.resp = "render_register"
       /\ last.msg = "Email already exists. Please use a different email."
       /\ users = last.preUsers

C11_Witness ==
    /\ last.ep = "register"
    /\ last.cred = "form"
    /\ Len(last.preUsers) = 1
    /\ last.preUsers[1].email = last.email
    /\ last.resp = "render_register"

UnknownEmail ==
    \A i \in 1..Len(last.preUsers) :
        ~Padded(last.preUsers[i].email, last.email)
WrongPassword ==
    \E i \in 1..Len(last.preUsers) :
        /\ Padded(last.preUsers[i].email, last.email)
        /\ last.preUsers[i].password # <<"scrypt", last.password>>

\* C13: a /login with a stored email and a wrong password and a /login
\* with an email that is not stored get one and the same response (the
\* login page with the generic message) and neither logs the browser in.
C13_LoginFailuresAlike ==
    ( /\ last.ep = "login"
      /\ last.cred = "form"
      /\ UnknownEmail \/ WrongPassword )
    => /\ last.resp = "render_home"
       /\ last.msg = "Invalid email or password"
       /\ last.flash = ""
       /\ last.exc = ""
       /\ last.body = NoBody
       /\ session = last.pre
       /\ remember = last.preRemember

C13_Witness ==
    /\ last.ep = "login"
    /\ last.cred = "form"
    /\ WrongPassword
    /\ Len(last.preUsers) = 2
    /\ last.resp = "render_home"

\* ---------------------------------------------------------- time claims
\* the value of a decimal digit
DigitValue(c) ==
    CASE c = "0" -> 0 [] c = "1" -> 1 [] c = "2" -> 2 [] c = "3" -> 3
      [] c = "4" -> 4 [] c = "5" -> 5 [] c = "6" -> 6 [] c = "7" -> 7
      [] c = "8" -> 8 [] c = "9" -> 9

RECURSIVE NumeralValue(_)
\* the number a decimal numeral stands for
NumeralValue(ds) ==
    IF ds = <<>> THEN 0
    ELSE 10 * NumeralValue(SubSeq(ds, 1, Len(ds) - 1)) + DigitValue(ds[Len(ds)])

\* ds is a decimal numeral without a leading zero
IsNumeral(ds) ==
    /\ ds # <<>>
    /\ \A i \in 1..Len(ds) :
          ds[i] \in {"0", "1", "2", "3", "4", "5", "6", "7", "8", "9"}
    /\ Len(ds) > 1 => ds[1] # "0"

\* text reads "<m>m <s>s" with the numerals of m and s
ReadsAs(text, m, sec) ==
    \E k \in 2..(Len(text) - 3) :
        /\ text[k] = "m"
        /\ text[k + 1] = " "
        /\ text[Len(text)] = "s"
        /\ IsNumeral(SubSeq(text, 1, k - 1))
        /\ IsNumeral(SubSeq(text, k + 2, Len(text) - 1))
        /\ NumeralValue(SubSeq(text, 1, k - 1)) = m
        /\ NumeralValue(SubSeq(text, k + 2, Len(text) - 1)) = sec

\* C14: after t whole seconds the summary shows "<floor(t/60)>m <t mod 60>s",
\* the seconds in 0..59; 125 seconds read "2m 5s" and 59 seconds "0m 59s".
C14_ElapsedFormat ==
    ( /\ last.ep = "show_results"
      /\ last.resp = "render_results" )
    => LET t == last.now - last.pre.start_time
       IN  /\ t >= 0
           /\ \E m \in 0..t, sec \in 0..59 :
                 /\ 60 * m + sec = t
                 /\ ReadsAs(last.body.time_taken, m, sec)
           /\ t = 125 => last.body.time_taken = <<"2", "m", " ", "5", "s">>
           /\ t = 59 => last.body.time_taken = <<"0", "m", " ", "5", "9", "s">>

C14_Witness ==
    /\ last.ep = "show_results"
    /\ last.resp = "render_results"
    /\ last.now - last.pre.start_time = 125
    /\ last.body.time_taken = <<"2", "m", " ", "5", "s">>

\* ---------------------------------------------------------- quiz claims
\* C15: after every successful start(C, n), whatever the session held, the
\* questions are the first total_questions questions of C in file order,
\* current_index is 0 and answers is empty.
C15_StartResets ==
    ( /\ last.ep = "start_quiz"
      /\ last.resp = "redirect_show_question" )
    => LET qs == last.preFile.categories[last.category]
       IN  /\ session.total_questions \in 1..Len(qs)
           /\ session.questions = SubSeq(qs, 1, session.total_questions)
           /\ session.current_index = 0
           /\ session.answers = <<>>
           /\ session.category = last.category
           /\ session.keys = QuizKeys

C15_Witness ==
    /\ last.ep = "start_quiz"
    /\ last.resp = "redirect_show_question"
    /\ Completed(last.pre)
    /\ Len(last.pre.answers) = MaxQ
    /\ last.preFile = FileA
    /\ session.total_questions = 1
    /\ session.answers = <<>>

\* C16: after a successful start with total_questions = N the quiz is
\* InProgress for the first N-1 submits and Completed after exactly N, and
\* a /quiz read of a Completed quiz redirects to the results.
C16_CompletedAfterNSubmits ==
    /\ ( run.N > 0 /\ HoldsQuiz(session) )
       => /\ run.submits < run.N => InProgress(session)
          /\ run.submits = run.N => Completed(session)
          /\ run.submits <= run.N
    /\ ( last.ep = "show_question" /\ Completed(last.pre) )
       => last.resp = "redirect_show_results"

\* C17: /quiz renders a question only when current_index < total_questions,
\* and then questions[current_index] with number current_index + 1; when
\* current_index >= total_questions it redirects to the results.
C17_NoOutOfRangeQuestion ==
    /\ ( last.ep = "show_question" /\ last.resp = "render_quiz" )
       => /\ HoldsQuiz(last.pre)
          /\ last.pre.current_index < last.pre.total_questions
          /\ last.pre.current_index < Len(last.pre.questions)
          /\ last.body.question =
                 last.pre.questions[last.pre.current_index + 1]
          /\ last.body.question_number = last.pre.current_index + 1
    /\ ( /\ last.ep = "show_question"
         /\ HoldsQuiz(last.pre)
         /\ last.pre.current_index >= last.pre.total_questions )
       => last.resp = "redirect_show_results"

C17_Witness ==
    /\ last.ep = "show_question"
    /\ HoldsQuiz(last.pre)
    /\ last.pre.current_index = MaxQ
    /\ last.pre.total_questions = MaxQ
    /\ last.resp = "redirect_show_results"

\* questions.json no longer holds the questions the session was started on
FileDiverged ==
    \/ ~last.preFile.ok
    \/ last.pre.category \notin DOMAIN last.preFile.categories
    \/ Len(last.preFile.categories[last.pre.category])
           < Len(last.pre.questions)
    \/ SubSeq(last.preFile.categories[last.pre.category], 1,
              Len(last.pre.questions)) # last.pre.questions

\* C18: whatever questions.json holds after the start, /quiz serves the
\* question of the session, /submit records and judges against the
\* question of the session, and /results reports the answers of the session.
C18_SessionOnly ==
    /\ ( last.ep = "show_question" /\ last.resp = "render_quiz" )
       => last.body.question = last.pre.questions[last.pre.current_index + 1]
    /\ ( last.ep = "submit_answer" /\ last.resp = "redirect_show_question" )
       => LET q == last.pre.questions[last.pre.current_index + 1]
              a == session.answers[Len(session.answers)]
          IN  /\ session.questions = last.pre.questions
              /\ a.question = q.question
              /\ a.options = q.options
              /\ a.correct_answer = q.answer
              /\ a.is_correct = (last.answer = q.answer)
    /\ ( last.ep = "show_results" /\ last.resp = "render_results" )
       => /\ last.body.answers = last.pre.answers
          /\ last.body.total_questions = last.pre.total_questions
          /\ last.body.correct =
                 Cardinality({i \in 1..Len(last.pre.answers) :
                                last.pre.answers[i].is_correct})

C18_Witness ==
    /\ last.ep = "submit_answer"
    /\ last.resp = "redirect_show_question"
    /\ last.preFile = FileB
    /\ FileDiverged
    /\ last.pre.category = "math"
    /\ last.pre.current_index = 0
    /\ last.answer = "A"
    /\ session.answers[1].is_correct

\* C19: answers[i] records question i: its text, its answer key, and
\* is_correct exactly when the user's answer is a label in {A,B,C,D} that
\* equals the key.
C19_AnswersMatchQuestions ==
    HoldsQuiz(session) =>
        /\ Len(session.answers) <= Len(session.questions)
        /\ \A i \in 1..Len(session.answers) :
              /\ session.answers[i].question = session.questions[i].question
              /\ session.answers[i].correct_answer
                     = session.questions[i].answer
              /\ session.answers[i].is_correct
                     = ( /\ session.answers[i].user_answer
                                \in {"A", "B", "C", "D"}
                         /\ session.answers[i].user_answer
                                = session.questions[i].answer )

C19_Witness ==
    /\ HoldsQuiz(session)
    /\ Len(session.answers) = MaxQ
    /\ session.answers[1].is_correct
    /\ ~session.answers[2].is_correct
    /\ session.answers[2].user_answer = "A"

\* C20: a session that holds quiz state has total_questions >= 1 and no
\* more correct answers than total_questions, and every score that
\* /results reports lies between 0 and 100.
C20_ScoreInRange ==
    /\ HoldsQuiz(session)
       => /\ session.total_questions >= 1
          /\ Cardinality({i \in 1..Len(session.answers) :
                            session.answers[i].is_correct})
                 <= session.total_questions
    /\ ( last.ep = "show_results" /\ last.resp = "render_results" )
       => /\ last.body.score >= 0
          /\ last.body.score <= 10000
    /\ last.exc # "ZeroDivisionError"

====
